---- MODULE Spec2Model ----
(***************************************************************************)
(* The chat subsystem of app/routers/chat.py: the in-memory connection     *)
(* registry (ConnectionManager), the websocket handler websocket_chat,     *)
(* and the HTTP endpoints send_message, mark_messages_as_read,             *)
(* get_unread_count, get_history_with_user and get_conversations, over     *)
(* one message table.                                                      *)
(*                                                                         *)
(* Every coroutine is cut at its awaits that touch shared state: a task    *)
(* (one websocket handler or one HTTP request) takes one step of the model *)
(* per such await.  The database commit and the websocket send are the     *)
(* environment: a commit succeeds or raises, a send on an open connection  *)
(* succeeds, a send on a closed connection raises either                   *)
(* WebSocketDisconnect or another exception, which one depends on the      *)
(* ASGI server, so the model takes both.                                   *)
(*                                                                         *)
(* Spec is the live path: the websocket handlers and one send_message      *)
(* request.  SpecRead is the read state: concurrent send_message and       *)
(* mark_messages_as_read requests with no websocket connected.  SpecSend   *)
(* is send_message alone with every request body, SpecFrames the websocket *)
(* handlers alone with every frame, SpecBroadcast the registry with one    *)
(* call of broadcast iterating it, SpecQuery the read-only queries over    *)
(* any message table, SpecStore every writer of the table together (one    *)
(* websocket handler, two requests that send or mark read), SpecIdentity   *)
(* the live path with frames and bodies that name a sender of their own.   *)
(* Task ids are labels: connections and requests take them in increasing   *)
(* order.                                                                  *)
(***************************************************************************)
EXTENDS Integers, Sequences, FiniteSets, TLC

\* ---------------------------------------------------------------- bounds
NumSockets == 2      \* websocket connections ever opened
NumReqs == 3         \* HTTP requests ever made
MaxStore == 2        \* rows of the message table

\* ---------------------------------------------------------------- inputs
Users == {1, 2}      \* the users that connect and send
BaseUser == {1, 2, 3}  \* the ids of the users table
NoUser == 0          \* a failed identity resolution, a missing receiver_id
NoSocket == 0
NoMessage == 0
NoProperty == 0
Texts == {"hi"}
NoText == ""         \* a missing or empty message
PropertyIds == {NoProperty, 1}

Sockets == 1..NumSockets
Reqs == (NumSockets + 1)..(NumSockets + NumReqs)
Tasks == Sockets \cup Reqs

Malformed == [kind |-> "malformed"]
\* a JSON object; sender_id is a key the handler does not ask for, NoUser
\* when the frame has none
JsonFrames ==
    [kind : {"json"}, receiver_id : Users \cup {NoUser},
     message : Texts \cup {NoText}, property_id : PropertyIds,
     sender_id : Users \cup {NoUser}]
\* a frame that parses to a JSON value that is not an object: [], "x", null
NotAnObject == [kind |-> "value"]
Frames == {Malformed, NotAnObject} \cup JsonFrames

\* message is declared `str`: the empty string passes validation
SendMessageRequest ==
    [receiver_id : Users, message : Texts \cup {NoText},
     property_id : PropertyIds]

\* the JSON bodies posted to send_message: the fields of the schema and a
\* sender_id key, NoUser when the body has none
Bodies ==
    [receiver_id : Users, message : Texts \cup {NoText},
     property_id : PropertyIds, sender_id : Users \cup {NoUser}]

\* the body as the schema validates it: the declared fields, any other key
\* ignored
model_validate(body) ==
    [receiver_id |-> body.receiver_id, message |-> body.message,
     property_id |-> body.property_id]

CommitOutcomes == {"ok", "fail"}
\* what send_text / send_json raises on a connection the peer has closed
SendFailures == {"disconnect", "error"}

VARIABLES
    store,                \* the chat message table, in insertion order
    active_connections,   \* manager.active_connections
    pc,                   \* position of every task
    current_user,         \* the identity a task runs as
    peerOpen,             \* whether the peer of a websocket is still there
    db_message,           \* id of the row a task has committed
    target,               \* the websocket send_personal_message selected
    sender_id,            \* the path parameter of a mark-read request
    messages,             \* the rows mark_messages_as_read selected
    response,             \* what an HTTP request returned last
    outbox,               \* the payloads each websocket's peer was sent
    data,                 \* the frame or request body a task is sending
    scan                  \* the list a broadcast iterates and its position

vars == <<store, active_connections, pc, current_user, peerOpen, db_message,
          target, sender_id, messages, response, outbox, data, scan>>

\* no broadcast is iterating; `bound` tells whether the list iterated is
\* still the object manager.active_connections names
NoScan == [connections |-> <<>>, pos |-> 0, bound |-> FALSE]

\* no frame or request body
NoData ==
    [receiver_id |-> NoUser, message |-> NoText, property_id |-> NoProperty]

\* ------------------------------------------------------------- the store
LastTimestamp == IF store = <<>> THEN 0 ELSE store[Len(store)].timestamp

\* the column defaults of the ChatMessage model
ChatMessage(sender, receiver, message, property_id, timestamp) ==
    [id |-> Len(store) + 1, sender_id |-> sender,
     receiver_id |-> receiver, message |-> message,
     property_id |-> property_id, timestamp |-> timestamp,
     is_read |-> FALSE]

Timestamps == {LastTimestamp, LastTimestamp + 1} \ {0}

\* ---------------------------------------------------------- the registry
connect(websocket, user_id) ==
    Append(active_connections, [user_id |-> user_id, websocket |-> websocket])

disconnect(websocket) ==
    SelectSeq(active_connections, LAMBDA conn : conn.websocket # websocket)

\* line 29: append changes the list in place, an iterator over it sees the
\* new connection
appended(websocket, user_id) ==
    IF scan.bound
    THEN [scan EXCEPT !.connections =
                          Append(@, [user_id |-> user_id,
                                     websocket |-> websocket])]
    ELSE scan

\* lines 32-34: disconnect binds the name to a new list, an iterator goes
\* on over the old one
rebound == [scan EXCEPT !.bound = FALSE]

RECURSIVE Scan(_, _, _)
Scan(conns, user_id, i) ==
    IF i > Len(conns) THEN NoSocket
    ELSE IF conns[i].user_id = user_id THEN conns[i].websocket
    ELSE Scan(conns, user_id, i + 1)

\* mutant: the scan takes the first connection, whoever its user is
send_to_first_connection(conns, user_id) ==
    IF conns = <<>> THEN NoSocket ELSE conns[1].websocket

\* mutant: the scan goes on past a match and takes the last one
send_to_last_match(conns, user_id) ==
    LET matching == {i \in 1..Len(conns) : conns[i].user_id = user_id}
    IN  IF matching = {} THEN NoSocket
        ELSE conns[CHOOSE i \in matching : \A j \in matching : j <= i].websocket

\* the connection send_personal_message sends to, NoSocket when none matches
send_personal_message(conns, user_id) == Scan(conns, user_id, 1)

\* lines 93-104 and 258-269: the frame built from the committed row
Payload(m) ==
    [type |-> "json", id |-> m.id, sender_info |-> m.sender_id,
     receiver_id |-> m.receiver_id, message |-> m.message,
     created_at |-> m.timestamp]

\* ------------------------------------------------------------ the queries
\* mutant: the rows are counted for their sender
RECURSIVE count_unread_sent(_, _, _)
count_unread_sent(rows, user_id, i) ==
    IF i > Len(rows) THEN 0
    ELSE (IF rows[i].sender_id = user_id /\ rows[i].is_read = FALSE
          THEN 1 ELSE 0) + count_unread_sent(rows, user_id, i + 1)

get_unread_count_of_sender(user_id) == count_unread_sent(store, user_id, 1)

\* lines 314-322: count(id) where receiver_id = user and is_read = False
RECURSIVE count_unread(_, _, _)
count_unread(rows, user_id, i) ==
    IF i > Len(rows) THEN 0
    ELSE (IF rows[i].receiver_id = user_id /\ rows[i].is_read = FALSE
          THEN 1 ELSE 0) + count_unread(rows, user_id, i + 1)

get_unread_count(user_id) == count_unread(store, user_id, 1)

\* mutant: only the rows the user sent, as chat_history selects
history_rows_sent(user, other) ==
    {i \in 1..Len(store) :
        store[i].sender_id = user /\ store[i].receiver_id = other}

\* lines 219-226: the rows of the thread between the two users
history_rows(user, other) ==
    {i \in 1..Len(store) :
        \/ store[i].sender_id = user /\ store[i].receiver_id = other
        \/ store[i].sender_id = other /\ store[i].receiver_id = user}

\* line 227: newest first; rows of equal timestamp come in any order
order_by_timestamp_desc(rows) ==
    {q \in [1..Cardinality(rows) -> rows] :
        /\ \A i, j \in DOMAIN q : i # j => q[i] # q[j]
        /\ \A i, j \in DOMAIN q :
              i < j => store[q[i]].timestamp >= store[q[j]].timestamp}

Least(a, b) == IF a < b THEN a ELSE b

\* lines 228-233: the pages get_history_with_user can return, as row ids
get_history_with_user(user, other, offset, limit) ==
    {SubSeq(q, offset + 1, Least(offset + limit, Len(q))) :
        q \in order_by_timestamp_desc(history_rows(user, other))}

DefaultLimit == 100

\* mutant: the other party is always taken to be the sender
other_user_is_sender(m, user_id) == m.sender_id

\* lines 140-143 and 177: the party of a row that is not user_id
other_user_id(m, user_id) ==
    IF m.sender_id = user_id THEN m.receiver_id ELSE m.sender_id

\* mutant: the row of the least id stands for the group
Smallest(ids) == CHOOSE i \in ids : \A j \in ids : i <= j

\* func.max over a non-empty set of ids
Greatest(ids) == CHOOSE i \in ids : \A j \in ids : j <= i

\* lines 138-153: per other party of the rows involving user_id, the
\* greatest row id
latest_msg_subquery(user_id) ==
    LET involving == {i \in 1..Len(store) :
                         \/ store[i].sender_id = user_id
                         \/ store[i].receiver_id = user_id}
        group(o) == {i \in involving : other_user_id(store[i], user_id) = o}
    IN  {[other_user_id |-> o, max_id |-> Greatest(group(o))] :
            o \in {other_user_id(store[i], user_id) : i \in involving}}

\* mutant: the unread rows of the thread, in either direction
unread_count_of_thread(user_id, other) ==
    Cardinality({i \in 1..Len(store) :
                    /\ {store[i].sender_id, store[i].receiver_id}
                           = {user_id, other}
                    /\ store[i].is_read = FALSE})

\* lines 180-191: the unread rows from other to user_id
unread_count(user_id, other) ==
    Cardinality({i \in 1..Len(store) : /\ store[i].sender_id = other
                                       /\ store[i].receiver_id = user_id
                                       /\ store[i].is_read = FALSE})

\* lines 193-201: the summary built from the latest row of a conversation
ConversationSchema(chat_msg, user_id) ==
    [other_user_id |-> other_user_id(chat_msg, user_id),
     last_message |-> chat_msg.message,
     timestamp |-> chat_msg.timestamp,
     unread_count |-> unread_count(user_id, other_user_id(chat_msg, user_id))]

\* lines 156-203: the lists get_conversations can return; the join with
\* the users table keeps the groups whose other party is a user, the rows
\* come newest first and rows of equal timestamp in any order
get_conversations(user_id) ==
    LET joined == {g.max_id : g \in {h \in latest_msg_subquery(user_id) :
                                        h.other_user_id \in BaseUser}}
    IN  {[k \in DOMAIN q |-> ConversationSchema(store[q[k]], user_id)] :
            q \in order_by_timestamp_desc(joined)}

\* ------------------------------------------------------------ the tables
\* a message table: ids in insertion order, the first timestamp 1, a later
\* row at the timestamp of the row before it or, at a tick, one after it
Table(senders, receivers, texts, reads, ticks) ==
    [i \in DOMAIN senders |->
        [id |-> i, sender_id |-> senders[i], receiver_id |-> receivers[i],
         message |-> texts[i], property_id |-> NoProperty,
         timestamp |-> 1 + Cardinality({j \in 2..i : ticks[j]}),
         is_read |-> reads[i]]]

\* ------------------------------------------------------------------ Init
Init ==
    /\ store = <<>>
    /\ active_connections = <<>>
    /\ pc = [t \in Tasks |-> IF t \in Sockets THEN "connecting" ELSE "idle"]
    /\ current_user = [t \in Tasks |-> NoUser]
    /\ peerOpen = [w \in Sockets |-> TRUE]
    /\ db_message = [t \in Tasks |-> NoMessage]
    /\ target = [t \in Tasks |-> NoSocket]
    /\ sender_id = [t \in Reqs |-> NoUser]
    /\ messages = [t \in Reqs |-> {}]
    /\ response = [t \in Reqs |-> [status |-> "none"]]
    /\ outbox = [w \in Sockets |-> <<>>]
    /\ data = [t \in Tasks |-> NoData]
    /\ scan = NoScan

\* the read-only queries start from any message table
InitQuery ==
    /\ \E n \in 0..MaxStore :
          \E senders \in [1..n -> BaseUser], receivers \in [1..n -> BaseUser],
             texts \in [1..n -> Texts \cup {NoText}],
             reads \in [1..n -> BOOLEAN], ticks \in [2..n -> BOOLEAN] :
              store = Table(senders, receivers, texts, reads, ticks)
    /\ active_connections = <<>>
    /\ pc = [t \in Tasks |-> IF t \in Sockets THEN "connecting" ELSE "idle"]
    /\ current_user = [t \in Tasks |-> NoUser]
    /\ peerOpen = [w \in Sockets |-> TRUE]
    /\ db_message = [t \in Tasks |-> NoMessage]
    /\ target = [t \in Tasks |-> NoSocket]
    /\ sender_id = [t \in Reqs |-> NoUser]
    /\ messages = [t \in Reqs |-> {}]
    /\ response = [t \in Reqs |-> [status |-> "none"]]
    /\ outbox = [w \in Sockets |-> <<>>]
    /\ data = [t \in Tasks |-> NoData]
    /\ scan = NoScan

\* ------------------------------------------------------- websocket_chat
\* mutant: the connection is registered before the identity is looked at
Connect_then_check(w, u) ==
    /\ pc[w] = "connecting"
    /\ \A v \in Sockets : v < w => pc[v] # "connecting"
    /\ active_connections' = connect(w, u)
    /\ scan' = appended(w, u)
    /\ IF u = NoUser
       THEN /\ pc' = [pc EXCEPT ![w] = "rejected"]
            /\ peerOpen' = [peerOpen EXCEPT ![w] = FALSE]
            /\ UNCHANGED current_user
       ELSE /\ current_user' = [current_user EXCEPT ![w] = u]
            /\ pc' = [pc EXCEPT ![w] = "receiving"]
            /\ UNCHANGED peerOpen
    /\ UNCHANGED <<store, db_message, target, sender_id, messages, response,
                   outbox, data>>

\* lines 59-64: a failed identity resolution returns before registering
Connect(w, u) ==
    /\ pc[w] = "connecting"
    /\ \A v \in Sockets : v < w => pc[v] # "connecting"
    /\ IF u = NoUser
       THEN /\ pc' = [pc EXCEPT ![w] = "rejected"]
            /\ peerOpen' = [peerOpen EXCEPT ![w] = FALSE]
            /\ UNCHANGED <<active_connections, scan, current_user>>
       ELSE /\ active_connections' = connect(w, u)
            /\ scan' = appended(w, u)
            /\ current_user' = [current_user EXCEPT ![w] = u]
            /\ pc' = [pc EXCEPT ![w] = "receiving"]
            /\ UNCHANGED peerOpen
    /\ UNCHANGED <<store, db_message, target, sender_id, messages, response,
                   outbox, data>>

\* the peer closes its side of the connection
PeerClose(w) ==
    /\ pc[w] \in {"receiving", "invalid_json", "attribute_error",
                 "missing_fields", "deliver", "sending"}
    /\ peerOpen[w]
    /\ peerOpen' = [peerOpen EXCEPT ![w] = FALSE]
    /\ UNCHANGED <<store, active_connections, scan, pc, current_user,
                   db_message, target, sender_id, messages, response, outbox,
                   data>>

\* the handler leaves through `except WebSocketDisconnect` (lines 110-111)
Disconnected(w) ==
    /\ active_connections' = disconnect(w)
    /\ scan' = rebound
    /\ pc' = [pc EXCEPT ![w] = "closed"]
    /\ peerOpen' = [peerOpen EXCEPT ![w] = FALSE]

\* the handler leaves through an exception nothing catches
Failed(w) ==
    /\ pc' = [pc EXCEPT ![w] = "failed"]
    /\ peerOpen' = [peerOpen EXCEPT ![w] = FALSE]
    /\ UNCHANGED <<active_connections, scan>>

\* mutant: the delivery is started with the row not committed
Persist_uncommitted(t, sender, receiver, message, property_id, timestamp) ==
    /\ Len(store) < MaxStore
    /\ store' = store
    /\ db_message' = [db_message EXCEPT ![t] = Len(store) + 1]
    /\ pc' = [pc EXCEPT ![t] = "deliver"]

\* lines 82-89: the row is added and committed
Persist(t, sender, receiver, message, property_id, timestamp) ==
    /\ Len(store) < MaxStore
    /\ store' = Append(store, ChatMessage(sender, receiver, message,
                                          property_id, timestamp))
    /\ db_message' = [db_message EXCEPT ![t] = Len(store) + 1]
    /\ pc' = [pc EXCEPT ![t] = "deliver"]

\* mutant: the row is stored under the sender_id of the frame when it has one
Receive_as_claimed(w, frame, outcome, timestamp) ==
    /\ pc[w] = "receiving"
    /\ peerOpen[w]
    /\ IF frame.kind = "malformed"
       THEN /\ pc' = [pc EXCEPT ![w] = "invalid_json"]
            /\ UNCHANGED <<store, active_connections, scan, current_user,
                           peerOpen, db_message, target, sender_id, messages,
                           response, outbox, data>>
       ELSE IF frame.kind = "value"
       THEN /\ pc' = [pc EXCEPT ![w] = "attribute_error"]
            /\ UNCHANGED <<store, active_connections, scan, current_user,
                           peerOpen, db_message, target, sender_id, messages,
                           response, outbox, data>>
       ELSE IF frame.receiver_id = NoUser \/ frame.message = NoText
       THEN /\ pc' = [pc EXCEPT ![w] = "missing_fields"]
            /\ UNCHANGED <<store, active_connections, scan, current_user,
                           peerOpen, db_message, target, sender_id, messages,
                           response, outbox, data>>
       ELSE IF outcome = "ok"
       THEN /\ Persist(w, IF frame.sender_id = NoUser THEN current_user[w]
                          ELSE frame.sender_id,
                       frame.receiver_id, frame.message, NoProperty, timestamp)
            /\ data' = [data EXCEPT
                          ![w] = [receiver_id |-> frame.receiver_id,
                                  message |-> frame.message,
                                  property_id |-> frame.property_id,
                                  sender_id |-> frame.sender_id]]
            /\ UNCHANGED <<active_connections, scan, current_user, peerOpen,
                           target, sender_id, messages, response, outbox>>
       ELSE /\ Failed(w)
            /\ UNCHANGED <<store, current_user, db_message, target, sender_id,
                           messages, response, outbox, data>>

\* lines 67-89: one frame is received, checked and stored
Receive(w, frame, outcome, timestamp) ==
    /\ pc[w] = "receiving"
    /\ peerOpen[w]
    /\ IF frame.kind = "malformed"
       THEN /\ pc' = [pc EXCEPT ![w] = "invalid_json"]
            /\ UNCHANGED <<store, active_connections, scan, current_user,
                           peerOpen, db_message, target, sender_id, messages,
                           response, outbox, data>>
       ELSE IF frame.kind = "value"
       THEN /\ pc' = [pc EXCEPT ![w] = "attribute_error"]
            /\ UNCHANGED <<store, active_connections, scan, current_user,
                           peerOpen, db_message, target, sender_id, messages,
                           response, outbox, data>>
       ELSE IF frame.receiver_id = NoUser \/ frame.message = NoText
       THEN /\ pc' = [pc EXCEPT ![w] = "missing_fields"]
            /\ UNCHANGED <<store, active_connections, scan, current_user,
                           peerOpen, db_message, target, sender_id, messages,
                           response, outbox, data>>
       ELSE IF outcome = "ok"
       THEN /\ Persist(w, current_user[w], frame.receiver_id, frame.message,
                       NoProperty, timestamp)
            /\ data' = [data EXCEPT
                          ![w] = [receiver_id |-> frame.receiver_id,
                                  message |-> frame.message,
                                  property_id |-> frame.property_id,
                                  sender_id |-> frame.sender_id]]
            /\ UNCHANGED <<active_connections, scan, current_user, peerOpen,
                           target, sender_id, messages, response, outbox>>
       ELSE /\ Failed(w)
            /\ UNCHANGED <<store, current_user, db_message, target, sender_id,
                           messages, response, outbox, data>>

\* lines 75-76: data.get on a value that is not an object raises
\* AttributeError, which neither `except` of the handler catches
GetFields(w) ==
    /\ pc[w] = "attribute_error"
    /\ Failed(w)
    /\ UNCHANGED <<store, current_user, db_message, target, sender_id,
                   messages, response, outbox, data>>

\* mutant: the handler leaves the loop after the notice
SendText_then_leave(w, failure) ==
    /\ pc[w] \in {"invalid_json", "missing_fields"}
    /\ Disconnected(w)
    /\ UNCHANGED <<store, current_user, db_message, target, sender_id,
                   messages, response, outbox, data>>

\* lines 71-72 and 79-80: the plain-text notice to the sender, then continue;
\* on a connection closed meanwhile send_text raises
SendText(w, failure) ==
    /\ pc[w] \in {"invalid_json", "missing_fields"}
    /\ IF peerOpen[w]
       THEN /\ pc' = [pc EXCEPT ![w] = "receiving"]
            /\ UNCHANGED <<active_connections, scan, peerOpen>>
       ELSE IF failure = "disconnect" THEN Disconnected(w) ELSE Failed(w)
    /\ UNCHANGED <<store, current_user, db_message, target, sender_id,
                   messages, response, outbox, data>>

\* lines 68-72 on a dropped connection: receive_json raises
\* WebSocketDisconnect, `except Exception` catches it and send_text is
\* called on the closed connection
ReceiveDisconnect(w, failure) ==
    /\ pc[w] = "receiving"
    /\ ~peerOpen[w]
    /\ IF failure = "disconnect" THEN Disconnected(w) ELSE Failed(w)
    /\ UNCHANGED <<store, current_user, db_message, target, sender_id, messages,
                   response, outbox, data>>

\* ------------------------------------------------- send_personal_message
\* the caller goes on after send_personal_message returned: the handler
\* awaits the next frame, send_message returns the row (line 272)
Continue(t) ==
    /\ pc' = [pc EXCEPT ![t] = IF t \in Sockets THEN "receiving" ELSE "done"]
    /\ db_message' = [db_message EXCEPT ![t] = NoMessage]
    /\ target' = [target EXCEPT ![t] = NoSocket]
    /\ data' = [data EXCEPT ![t] = NoData]
    /\ response' = IF t \in Sockets THEN response
                   ELSE [response EXCEPT
                           ![t] = [status |-> "created", id |-> db_message[t]]]

\* mutant: the caller goes on with the delivery of its row still to be made
Deliver_detached(t) ==
    /\ pc[t] = "deliver"
    /\ pc' = [pc EXCEPT ![t] = IF t \in Sockets THEN "receiving" ELSE "done"]
    /\ UNCHANGED <<store, active_connections, scan, current_user, peerOpen,
                   db_message, target, sender_id, messages, response, outbox,
                   data>>

\* lines 38-39 (called at 107 and 270): the scan of the registry
Deliver(t) ==
    /\ pc[t] = "deliver"
    /\ LET websocket == send_personal_message(
                            active_connections,
                            store[db_message[t]].receiver_id)
       IN  IF websocket = NoSocket
           THEN Continue(t)
           ELSE /\ target' = [target EXCEPT ![t] = websocket]
                /\ pc' = [pc EXCEPT ![t] = "sending"]
                /\ UNCHANGED <<db_message, response, data>>
    /\ UNCHANGED <<store, active_connections, scan, current_user, peerOpen,
                   sender_id, messages, outbox>>

\* lines 40-41: send_json on the selected connection, then break
SendJson(t, failure) ==
    /\ pc[t] = "sending"
    /\ IF peerOpen[target[t]]
       THEN /\ outbox' = [outbox EXCEPT
                            ![target[t]] = Append(@, Payload(store[db_message[t]]))]
            /\ Continue(t)
            /\ UNCHANGED <<active_connections, scan, peerOpen>>
       ELSE IF t \in Reqs
       THEN \* the exception leaves send_message: the request fails
            /\ pc' = [pc EXCEPT ![t] = "done"]
            /\ response' = [response EXCEPT ![t] = [status |-> "error"]]
            /\ UNCHANGED <<active_connections, scan, peerOpen, db_message,
                           target, outbox, data>>
       ELSE \* the exception leaves the receive loop of the sender
            /\ IF failure = "disconnect" THEN Disconnected(t) ELSE Failed(t)
            /\ UNCHANGED <<db_message, target, response, outbox, data>>
    /\ UNCHANGED <<store, current_user, sender_id, messages>>

\* ---------------------------------------------------------- send_message
\* a request not yet made; request ids are labels, the lowest is taken next
Idle(r) ==
    /\ pc[r] = "idle"
    /\ \A q \in Reqs : q < r => pc[q] # "idle"

\* lines 247-255
SendMessage(r, u, request, outcome, timestamp) ==
    /\ Idle(r)
    /\ current_user' = [current_user EXCEPT ![r] = u]
    /\ IF outcome = "ok"
       THEN /\ Persist(r, u, request.receiver_id, request.message,
                       request.property_id, timestamp)
            /\ data' = [data EXCEPT ![r] = request]
            /\ UNCHANGED response
       ELSE /\ response' = [response EXCEPT ![r] = [status |-> "error"]]
            /\ pc' = [pc EXCEPT ![r] = "done"]
            /\ UNCHANGED <<store, db_message, data>>
    /\ UNCHANGED <<active_connections, scan, peerOpen, target, sender_id,
                   messages, outbox>>

\* ------------------------------------------------- mark_messages_as_read
\* mutant: the select leaves out the is_read filter
mark_select_any(rows, user, sender) ==
    {i \in 1..Len(rows) : /\ rows[i].sender_id = sender
                          /\ rows[i].receiver_id = user}

\* lines 285-296: the unread rows from sender to user
mark_select(rows, user, sender) ==
    {i \in 1..Len(rows) : /\ rows[i].sender_id = sender
                          /\ rows[i].receiver_id = user
                          /\ rows[i].is_read = FALSE}

\* mutant: the selected rows are written back with their message blanked
mark_commit_blank(rows, selected) ==
    [i \in 1..Len(rows) |->
        IF i \in selected
        THEN [rows[i] EXCEPT !.is_read = TRUE, !.message = NoText]
        ELSE rows[i]]

\* lines 298-302: every selected row is written back with is_read set
mark_commit(rows, selected) ==
    [i \in 1..Len(rows) |->
        IF i \in selected THEN [rows[i] EXCEPT !.is_read = TRUE] ELSE rows[i]]

\* one call that nothing interleaves with: the rows after it and its count
mark_messages_as_read(rows, user, sender) ==
    LET selected == mark_select(rows, user, sender)
    IN  [store |-> mark_commit(rows, selected),
         count |-> Cardinality(selected)]

MarkReadSelect(r, u, s) ==
    /\ Idle(r)
    /\ current_user' = [current_user EXCEPT ![r] = u]
    /\ sender_id' = [sender_id EXCEPT ![r] = s]
    /\ messages' = [messages EXCEPT ![r] = mark_select(store, u, s)]
    /\ pc' = [pc EXCEPT ![r] = "marking"]
    /\ UNCHANGED <<store, active_connections, scan, peerOpen, db_message,
                   target, response, outbox, data>>

MarkReadCommit(r, outcome) ==
    /\ pc[r] = "marking"
    /\ pc' = [pc EXCEPT ![r] = "done"]
    /\ IF outcome = "ok"
       THEN /\ store' = mark_commit(store, messages[r])
            /\ response' = [response EXCEPT
                              ![r] = [status |-> "ok",
                                      user |-> current_user[r],
                                      sender_id |-> sender_id[r],
                                      count |-> Cardinality(messages[r])]]
       ELSE /\ response' = [response EXCEPT ![r] = [status |-> "error"]]
            /\ UNCHANGED store
    /\ current_user' = [current_user EXCEPT ![r] = NoUser]
    /\ sender_id' = [sender_id EXCEPT ![r] = NoUser]
    /\ messages' = [messages EXCEPT ![r] = {}]
    /\ UNCHANGED <<active_connections, scan, peerOpen, db_message, target,
                   outbox, data>>

\* -------------------------------------------------------------- broadcast
\* line 44: the loop takes the next connection of the list it iterates, or
\* ends
Fetch(r, s) ==
    IF s.pos > Len(s.connections)
    THEN /\ pc' = [pc EXCEPT ![r] = "done"]
         /\ target' = [target EXCEPT ![r] = NoSocket]
         /\ scan' = NoScan
         /\ response' = [response EXCEPT ![r] = [status |-> "sent"]]
    ELSE /\ pc' = [pc EXCEPT ![r] = "broadcasting"]
         /\ target' = [target EXCEPT ![r] = s.connections[s.pos].websocket]
         /\ scan' = [s EXCEPT !.pos = @ + 1]
         /\ UNCHANGED response

\* lines 43-44: a call of broadcast starts to iterate the registry
Broadcast(r) ==
    /\ Idle(r)
    /\ Fetch(r, [connections |-> active_connections, pos |-> 1,
                 bound |-> TRUE])
    /\ UNCHANGED <<store, active_connections, current_user, peerOpen,
                   db_message, sender_id, messages, outbox, data>>

\* line 45: send_text on the connection taken returns and the loop goes
\* on, or raises and ends the call
BroadcastSent(r, message) ==
    /\ pc[r] = "broadcasting"
    /\ IF peerOpen[target[r]]
       THEN /\ outbox' = [outbox EXCEPT
                            ![target[r]] =
                                Append(@, [type |-> "text",
                                           message |-> message])]
            /\ Fetch(r, scan)
       ELSE /\ pc' = [pc EXCEPT ![r] = "done"]
            /\ response' = [response EXCEPT ![r] = [status |-> "error"]]
            /\ scan' = NoScan
            /\ UNCHANGED <<target, outbox>>
    /\ UNCHANGED <<store, active_connections, current_user, peerOpen,
                   db_message, sender_id, messages, data>>

\* ------------------------------------------------------------ the queries
\* lines 133-203
GetConversations(r, u) ==
    /\ Idle(r)
    /\ \E conversations \in get_conversations(u) :
          response' = [response EXCEPT
                         ![r] = [status |-> "ok",
                                 conversations |-> conversations]]
    /\ pc' = [pc EXCEPT ![r] = "done"]
    /\ UNCHANGED <<store, active_connections, scan, current_user, peerOpen,
                   db_message, target, sender_id, messages, outbox, data>>

\* lines 211-233
GetHistoryWithUser(r, u, user_id, offset, limit) ==
    /\ Idle(r)
    /\ \E page \in get_history_with_user(u, user_id, offset, limit) :
          response' = [response EXCEPT
                         ![r] = [status |-> "ok", messages |-> page]]
    /\ pc' = [pc EXCEPT ![r] = "done"]
    /\ UNCHANGED <<store, active_connections, scan, current_user, peerOpen,
                   db_message, target, sender_id, messages, outbox, data>>

\* ---------------------------------------------------------------- Next
\* the live path: the websocket handlers and one send_message request
LiveReqs == {NumSockets + 1}

\* the inputs of the live path: frames that do not parse and JSON objects,
\* requests with a message, none about a property
PlainFrames ==
    {f \in Frames :
        \/ f.kind = "malformed"
        \/ /\ f.kind = "json"
           /\ f.property_id = NoProperty
           /\ f.sender_id = NoUser}
PlainRequests ==
    {q \in SendMessageRequest :
        q.message \in Texts /\ q.property_id = NoProperty}

Next ==
    \/ \E w \in Sockets, u \in Users \cup {NoUser} : Connect(w, u)
    \/ \E w \in Sockets : PeerClose(w)
    \/ \E w \in Sockets, f \in PlainFrames, o \in CommitOutcomes,
          ts \in Timestamps : Receive(w, f, o, ts)
    \/ \E w \in Sockets, f \in SendFailures : SendText(w, f)
    \/ \E w \in Sockets, f \in SendFailures : ReceiveDisconnect(w, f)
    \/ \E t \in Sockets \cup LiveReqs : Deliver(t)
    \/ \E t \in Sockets \cup LiveReqs, f \in SendFailures : SendJson(t, f)
    \/ \E r \in LiveReqs, u \in Users, q \in PlainRequests,
          o \in CommitOutcomes, ts \in Timestamps : SendMessage(r, u, q, o, ts)

Spec == Init /\ [][Next]_vars

\* the read state: concurrent send_message and mark_messages_as_read
\* requests, no websocket connected
NextRead ==
    \/ \E r \in Reqs, u \in Users, q \in PlainRequests,
          o \in CommitOutcomes, ts \in Timestamps : SendMessage(r, u, q, o, ts)
    \/ \E r \in Reqs : Deliver(r)
    \/ \E r \in Reqs, u \in Users, s \in Users : MarkReadSelect(r, u, s)
    \/ \E r \in Reqs, o \in CommitOutcomes : MarkReadCommit(r, o)

SpecRead == Init /\ [][NextRead]_vars

\* the send_message requests alone, with every body the schema accepts
NextSend ==
    \/ \E r \in Reqs, u \in Users, q \in SendMessageRequest,
          o \in CommitOutcomes, ts \in Timestamps : SendMessage(r, u, q, o, ts)
    \/ \E r \in Reqs : Deliver(r)

SpecSend == Init /\ [][NextSend]_vars

\* the websocket handlers alone, with every frame a peer can send
NextFrames ==
    \/ \E w \in Sockets, u \in Users \cup {NoUser} : Connect(w, u)
    \/ \E w \in Sockets : PeerClose(w)
    \/ \E w \in Sockets, f \in Frames, o \in CommitOutcomes,
          ts \in Timestamps : Receive(w, f, o, ts)
    \/ \E w \in Sockets : GetFields(w)
    \/ \E w \in Sockets, f \in SendFailures : SendText(w, f)
    \/ \E w \in Sockets, f \in SendFailures : ReceiveDisconnect(w, f)
    \/ \E w \in Sockets : Deliver(w)
    \/ \E w \in Sockets, f \in SendFailures : SendJson(w, f)

SpecFrames == Init /\ [][NextFrames]_vars

\* the registry under a broadcast: connections open, send and close while
\* one call of broadcast iterates
NextBroadcast ==
    \/ \E w \in Sockets, u \in Users \cup {NoUser} : Connect(w, u)
    \/ \E w \in Sockets : PeerClose(w)
    \/ \E w \in Sockets, f \in PlainFrames, o \in CommitOutcomes,
          ts \in Timestamps : Receive(w, f, o, ts)
    \/ \E w \in Sockets, f \in SendFailures : SendText(w, f)
    \/ \E w \in Sockets, f \in SendFailures : ReceiveDisconnect(w, f)
    \/ \E w \in Sockets : Deliver(w)
    \/ \E w \in Sockets, f \in SendFailures : SendJson(w, f)
    \/ \E r \in LiveReqs : Broadcast(r)
    \/ \E r \in LiveReqs, m \in Texts : BroadcastSent(r, m)

SpecBroadcast == Init /\ [][NextBroadcast]_vars

\* the queries: one get_conversations or get_history_with_user request
\* over a message table nothing writes to
Offsets == {0, 1}
Limits == {DefaultLimit}

NextQuery ==
    \/ \E r \in LiveReqs, u \in BaseUser : GetConversations(r, u)
    \/ \E r \in LiveReqs, u \in BaseUser, o \in BaseUser,
          offset \in Offsets, limit \in Limits :
           GetHistoryWithUser(r, u, o, offset, limit)

SpecQuery == InitQuery /\ [][NextQuery]_vars

\* the table under every writer: one websocket handler and two requests,
\* each a send_message or a mark_messages_as_read
StoreSockets == {1}
StoreReqs == {NumSockets + 1, NumSockets + 2}

NextStore ==
    \/ \E w \in StoreSockets, u \in Users \cup {NoUser} : Connect(w, u)
    \/ \E w \in StoreSockets : PeerClose(w)
    \/ \E w \in StoreSockets, f \in PlainFrames, o \in CommitOutcomes,
          ts \in Timestamps : Receive(w, f, o, ts)
    \/ \E w \in StoreSockets, f \in SendFailures : SendText(w, f)
    \/ \E w \in StoreSockets, f \in SendFailures : ReceiveDisconnect(w, f)
    \/ \E t \in StoreSockets \cup StoreReqs : Deliver(t)
    \/ \E t \in StoreSockets \cup StoreReqs, f \in SendFailures : SendJson(t, f)
    \/ \E r \in StoreReqs, u \in Users, q \in PlainRequests,
          o \in CommitOutcomes, ts \in Timestamps : SendMessage(r, u, q, o, ts)
    \/ \E r \in StoreReqs, u \in Users, s \in Users : MarkReadSelect(r, u, s)
    \/ \E r \in StoreReqs, o \in CommitOutcomes : MarkReadCommit(r, o)

SpecStore == Init /\ [][NextStore]_vars

\* the identity of the sender: the live path with frames and bodies that
\* carry a sender_id of their own
SignedFrames ==
    {f \in Frames :
        f.kind = "malformed" \/ (f.kind = "json" /\ f.property_id = NoProperty)}
SignedBodies ==
    {b \in Bodies : b.message \in Texts /\ b.property_id = NoProperty}

NextIdentity ==
    \/ \E w \in Sockets, u \in Users \cup {NoUser} : Connect(w, u)
    \/ \E w \in Sockets : PeerClose(w)
    \/ \E w \in Sockets, f \in SignedFrames, o \in CommitOutcomes,
          ts \in Timestamps : Receive(w, f, o, ts)
    \/ \E w \in Sockets, f \in SendFailures : SendText(w, f)
    \/ \E w \in Sockets, f \in SendFailures : ReceiveDisconnect(w, f)
    \/ \E t \in Sockets \cup LiveReqs : Deliver(t)
    \/ \E t \in Sockets \cup LiveReqs, f \in SendFailures : SendJson(t, f)
    \/ \E r \in LiveReqs, u \in Users, b \in SignedBodies,
          o \in CommitOutcomes, ts \in Timestamps :
           SendMessage(r, u, model_validate(b), o, ts)

SpecIdentity == Init /\ [][NextIdentity]_vars

\* ------------------------------------------------------------- properties
Range(q) == {q[i] : i \in DOMAIN q}

Delivering(t) == pc[t] \in {"deliver", "sending"}

Terminated(t) == pc[t] \in {"rejected", "closed", "failed", "done"}

Registered(w) ==
    \E k \in 1..Len(active_connections) : active_connections[k].websocket = w

NoSession(user) ==
    \A k \in 1..Len(active_connections) : active_connections[k].user_id # user

\* the step in which task t's send_json on a closed connection raises
SendFails(t) ==
    /\ pc[t] = "sending"
    /\ ~peerOpen[target[t]]
    /\ pc'[t] # "sending"

\* C1: a delivery is attempted only for a row already committed: a task is
\* at the delivery only with the id of a stored row it sent, it gets there
\* only in the step that commits that row, every payload sent is that of a
\* stored row; a failed commit sends nothing and ends the task; and no step,
\* a failed delivery included, removes or rewrites a stored row.
C1_Committed ==
    /\ \A t \in Tasks :
          Delivering(t) =>
              /\ db_message[t] \in 1..Len(store)
              /\ store[db_message[t]].sender_id = current_user[t]
    /\ \A w \in Sockets : \A k \in 1..Len(outbox[w]) :
          /\ outbox[w][k].id \in 1..Len(store)
          /\ outbox[w][k] = Payload(store[outbox[w][k].id])

C1_Step ==
    /\ Len(store') >= Len(store)
    /\ \A i \in 1..Len(store) :
          [store'[i] EXCEPT !.is_read = store[i].is_read] = store[i]
    /\ \A t \in Tasks :
          /\ (Delivering(t)' /\ ~Delivering(t)) =>
                 /\ Len(store') = Len(store) + 1
                 /\ db_message'[t] = Len(store')
          /\ (pc[t] \in {"receiving", "idle"} /\ Terminated(t)') =>
                 /\ store' = store
                 /\ outbox' = outbox
          /\ Terminated(t) => pc'[t] = pc[t]
          /\ SendFails(t) => store' = store

C1_PersistThenDeliver == []C1_Committed /\ [][C1_Step]_vars

\* a delivery failed and the row it was for is still stored
C1_Witness ==
    \E t \in Tasks :
        /\ Terminated(t)
        /\ target[t] # NoSocket
        /\ db_message[t] \in 1..Len(store)
        /\ store[db_message[t]].sender_id = current_user[t]

\* C2: a send to a receiver with no registered session stores exactly one
\* row, unread, which the history of the pair returns to either party, raises
\* the receiver's unread count by one, and its delivery sends no frame to any
\* session and lets the sender go on (send_message returns the row).
C2_Step ==
    /\ \A a, b \in Users :
          (/\ Len(store') # Len(store)
           /\ store'[Len(store')].sender_id = a
           /\ store'[Len(store')].receiver_id = b
           /\ NoSession(b)) =>
              /\ Len(store') = Len(store) + 1
              /\ store'[Len(store')].id = Len(store')
              /\ store'[Len(store')].is_read = FALSE
              /\ \A page \in get_history_with_user(b, a, 0, DefaultLimit)' :
                    Len(store') \in Range(page)
              /\ \A page \in get_history_with_user(a, b, 0, DefaultLimit)' :
                    Len(store') \in Range(page)
              /\ get_unread_count(b)' = get_unread_count(b) + 1
              /\ outbox' = outbox
    /\ \A t \in Tasks :
          (/\ pc[t] = "deliver"
           /\ pc'[t] # "deliver"
           /\ NoSession(store[db_message[t]].receiver_id)) =>
              /\ outbox' = outbox
              /\ store' = store
              /\ pc'[t] = IF t \in Sockets THEN "receiving" ELSE "done"
              /\ t \in Reqs =>
                     response'[t] = [status |-> "created", id |-> db_message[t]]

C2_StoredNotDelivered == [][C2_Step]_vars

\* send_message returned a row whose receiver has no session: the row is
\* stored unread and no frame was sent
C2_Witness ==
    \E r \in Reqs :
        /\ response[r].status = "created"
        /\ NoSession(store[response[r].id].receiver_id)
        /\ store[response[r].id].is_read = FALSE
        /\ \A w \in Sockets : outbox[w] = <<>>

\* C3: a send that fails on the recipient's connection stays unseen by the
\* sender: send_message still returns the row, a websocket sender is back
\* in its receive loop and still registered.
C3_Step ==
    \A t \in Tasks :
        (SendFails(t) /\ target[t] # t) =>
            IF t \in Sockets
            THEN pc'[t] = "receiving" /\ Registered(t)'
            ELSE response'[t] = [status |-> "created", id |-> db_message[t]]

C3_SilentMiss == [][C3_Step]_vars

\* C4: a handler that finds its connection dropped while it awaits a frame
\* leaves the receive loop with its session unregistered.
C4_Step ==
    \A w \in Sockets :
        (pc[w] = "receiving" /\ ~peerOpen[w] /\ pc'[w] # "receiving") =>
            /\ Terminated(w)'
            /\ ~Registered(w)'

C4_DropUnregisters == [][C4_Step]_vars

\* C5: a send that fails on a session removes that session, and only that
\* session, from the registry, so that no later delivery selects it.
C5_Step ==
    \A t \in Tasks :
        SendFails(t) => active_connections' = disconnect(target[t])

C5_FailedSendUnregisters == [][C5_Step]_vars

\* the session registered first among those of the user, NoSocket when none
EarliestSession(user) ==
    LET matching == {k \in 1..Len(active_connections) :
                        active_connections[k].user_id = user}
    IN  IF matching = {} THEN NoSocket
        ELSE active_connections[
                 CHOOSE k \in matching : \A j \in matching : k <= j].websocket

HasOpenSession(user) ==
    \E k \in 1..Len(active_connections) :
        /\ active_connections[k].user_id = user
        /\ peerOpen[active_connections[k].websocket]

SendReturns(t) == pc[t] = "sending" /\ pc'[t] # "sending"

OneFrame(t) ==
    outbox' = [outbox EXCEPT
                 ![target[t]] = Append(@, Payload(store[db_message[t]]))]

\* a delivery selects the earliest-registered session of the receiver and no
\* other, and frames are sent by deliveries only
C6_Selects ==
    /\ \A t \in Tasks :
          (pc[t] = "deliver" /\ pc'[t] # "deliver") =>
              LET session == EarliestSession(store[db_message[t]].receiver_id)
              IN  /\ outbox' = outbox
                  /\ IF session = NoSocket
                     THEN ~Delivering(t)'
                     ELSE pc'[t] = "sending" /\ target'[t] = session
    /\ \A t \in Tasks :
          SendReturns(t) =>
              current_user[target[t]] = store[db_message[t]].receiver_id
    /\ outbox' # outbox => \E t \in Tasks : SendReturns(t)

\* C6 as stated: the delivery goes to the earliest-registered session of the
\* receiver only, and whenever the receiver has a live session the send
\* puts exactly one frame, that of the message, on the selected session.
C6_StepAsStated ==
    /\ C6_Selects
    /\ \A t \in Tasks :
          (SendReturns(t) /\ HasOpenSession(store[db_message[t]].receiver_id))
              => OneFrame(t)

C6_AsStated == [][C6_StepAsStated]_vars

\* C6 amended: the delivery goes to the earliest-registered session of the
\* receiver only; when the connection of that session is open the send puts
\* exactly one frame, that of the message, on it and none elsewhere; when it
\* is closed the send puts no frame on any session.
C6_Step ==
    /\ C6_Selects
    /\ \A t \in Tasks :
          SendReturns(t) =>
              IF peerOpen[target[t]] THEN OneFrame(t) ELSE outbox' = outbox

C6_FirstMatch == [][C6_Step]_vars

\* the receiver has two sessions and the frame went to the first of them
C6_Witness ==
    \E i, j \in 1..Len(active_connections) :
        /\ i < j
        /\ active_connections[i].user_id = active_connections[j].user_id
        /\ outbox[active_connections[i].websocket] # <<>>
        /\ outbox[active_connections[j].websocket] = <<>>

\* C7: two calls of mark-read for the same pair, one after the other with no
\* send in between: the second selects no row and changes none, and every
\* row from the sender to the user is read.
C7_Idempotent ==
    \A u, s \in Users :
        LET first == mark_messages_as_read(store, u, s)
            second == mark_messages_as_read(first.store, u, s)
        IN  /\ second.count = 0
            /\ second.store = first.store
            /\ \A i \in 1..Len(second.store) :
                  (second.store[i].sender_id = s
                       /\ second.store[i].receiver_id = u)
                      => second.store[i].is_read

\* a call marked a row, a later call for the same pair marked none
C7_Witness ==
    \E q, r \in Reqs :
        /\ q < r
        /\ response[q].status = "ok"
        /\ response[r].status = "ok"
        /\ response[q].user = response[r].user
        /\ response[q].sender_id = response[r].sender_id
        /\ response[q].count > 0
        /\ response[r].count = 0

\* C8: the count mark-read returns is the number of rows it turned from
\* unread to read, whatever runs concurrently, and it changes rows from the
\* sender to the user only.
C8_Step ==
    \A r \in Reqs :
        (pc[r] = "marking" /\ pc'[r] = "done" /\ response'[r].status = "ok") =>
            /\ response'[r].count =
                   Cardinality({i \in 1..Len(store) :
                                   ~store[i].is_read /\ store'[i].is_read})
            /\ \A i \in 1..Len(store) :
                  store'[i] # store[i] =>
                      /\ store[i].sender_id = sender_id[r]
                      /\ store[i].receiver_id = current_user[r]

C8_AtomicCount == [][C8_Step]_vars

\* C9: the unread count of a user is the number of stored rows addressed to
\* the user and not read, and a send from a to b, a # b, raises the count
\* of b by one and leaves that of a.
C9_Counts ==
    \A u \in Users :
        get_unread_count(u) =
            Cardinality({i \in 1..Len(store) :
                            store[i].receiver_id = u /\ ~store[i].is_read})

C9_Step ==
    \A a, b \in Users :
        (/\ Len(store') = Len(store) + 1
         /\ store'[Len(store')].sender_id = a
         /\ store'[Len(store')].receiver_id = b
         /\ a # b) =>
            /\ get_unread_count(b)' = get_unread_count(b) + 1
            /\ get_unread_count(a)' = get_unread_count(a)

C9_UnreadCount == []C9_Counts /\ [][C9_Step]_vars

\* sends and a mark-read have interleaved: a read row is followed by an
\* unread one
C9_Witness ==
    \E i, j \in 1..Len(store) :
        /\ i < j
        /\ store[i].is_read
        /\ ~store[j].is_read
        /\ get_unread_count(store[j].receiver_id) > 0

\* C10: no stored row has the same sender and receiver.
C10_NoSelfMessages ==
    \A i \in 1..Len(store) : store[i].sender_id # store[i].receiver_id

\* C11: every stored row has a non-empty message: a send with an empty
\* message, over a websocket or by send_message, stores nothing.
C11_NonEmptyMessage ==
    \A i \in 1..Len(store) : store[i].message # NoText

\* the users have exchanged a message, in either direction
Exchanged(u, v) ==
    \E i \in 1..Len(store) :
        \/ store[i].sender_id = u /\ store[i].receiver_id = v
        \/ store[i].sender_id = v /\ store[i].receiver_id = u

\* a request that get_conversations has answered
Listed(r) ==
    /\ pc[r] = "done"
    /\ response[r].status = "ok"
    /\ "conversations" \in DOMAIN response[r]

\* C12: whatever the table, get_conversations(u) has exactly one summary
\* for every user u has exchanged a message with, in either direction, none
\* for a user it has exchanged none with, and the unread_count of a summary
\* is the number of unread rows from that user to u.
C12_OnePerCounterpart ==
    \A u \in BaseUser : \A c \in get_conversations(u) :
        /\ \A v \in BaseUser :
              Cardinality({k \in DOMAIN c : c[k].other_user_id = v}) =
                  IF Exchanged(u, v) THEN 1 ELSE 0
        /\ \A k \in DOMAIN c :
              /\ c[k].other_user_id \in BaseUser
              /\ c[k].unread_count =
                     Cardinality({i \in 1..Len(store) :
                                     /\ store[i].sender_id = c[k].other_user_id
                                     /\ store[i].receiver_id = u
                                     /\ ~store[i].is_read})

\* a list of two conversations was returned, one with an unread row and
\* one with none, and a third user is in neither
C12_Witness ==
    \E r \in Reqs :
        /\ Listed(r)
        /\ Len(response[r].conversations) = 2
        /\ \E k \in 1..2 : response[r].conversations[k].unread_count = 1
        /\ \E k \in 1..2 : response[r].conversations[k].unread_count = 0
        /\ \E v \in BaseUser :
              \A k \in 1..2 : response[r].conversations[k].other_user_id # v

\* the rows u and v have exchanged
Thread(u, v) ==
    {i \in 1..Len(store) :
        \/ store[i].sender_id = u /\ store[i].receiver_id = v
        \/ store[i].sender_id = v /\ store[i].receiver_id = u}

\* C13: whatever the table, every summary of get_conversations(u) carries
\* the message and the timestamp of the row of greatest id among the rows u
\* and the summary's user have exchanged, and the summaries come by that
\* timestamp, descending.
C13_LatestFirst ==
    \A u \in BaseUser : \A c \in get_conversations(u) :
        /\ \A k \in DOMAIN c :
              \E i \in Thread(u, c[k].other_user_id) :
                  /\ \A j \in Thread(u, c[k].other_user_id) : j <= i
                  /\ c[k].last_message = store[i].message
                  /\ c[k].timestamp = store[i].timestamp
        /\ \A j, k \in DOMAIN c : j < k => c[j].timestamp >= c[k].timestamp

\* the list returned for a conversation of two rows of different text and
\* time shows the later row
C13_Witness ==
    \E r \in Reqs :
        /\ Listed(r)
        /\ Len(store) = 2
        /\ Len(response[r].conversations) = 1
        /\ store[1].message # store[2].message
        /\ store[1].timestamp < store[2].timestamp
        /\ store[1].sender_id = store[2].receiver_id
        /\ store[1].receiver_id = store[2].sender_id
        /\ store[1].sender_id # store[1].receiver_id
        /\ response[r].conversations[1].last_message = store[2].message
        /\ response[r].conversations[1].timestamp = store[2].timestamp

\* C14: whatever the table, for any users a and b the whole thread as
\* get_history_with_user returns it to a about b and to b about a is the
\* same set of rows, the rows whose sender and receiver are a and b in
\* either direction, every row once, newest first.
C14_Symmetric ==
    \A a, b \in BaseUser :
        \A p \in get_history_with_user(a, b, 0, DefaultLimit) :
            \A q \in get_history_with_user(b, a, 0, DefaultLimit) :
                /\ Range(p) = Range(q)
                /\ Range(p) = {i \in 1..Len(store) :
                                  {store[i].sender_id, store[i].receiver_id}
                                      = {a, b}}
                /\ Len(p) = Cardinality(Range(p))
                /\ \A j, k \in DOMAIN p :
                      j < k => store[p[j]].timestamp >= store[p[k]].timestamp

\* a history of two rows was returned, one sent in each direction, the
\* later row first
C14_Witness ==
    \E r \in Reqs :
        /\ pc[r] = "done"
        /\ response[r].status = "ok"
        /\ "messages" \in DOMAIN response[r]
        /\ response[r].messages = <<2, 1>>
        /\ store[1].sender_id = store[2].receiver_id
        /\ store[1].receiver_id = store[2].sender_id
        /\ store[1].sender_id # store[1].receiver_id
        /\ store[1].timestamp < store[2].timestamp

\* the step leaves the table, the registry and every peer's frames alone
\* and starts no delivery
NothingSent ==
    /\ store' = store
    /\ active_connections' = active_connections
    /\ outbox' = outbox
    /\ db_message' = db_message
    /\ target' = target

\* C15: a frame that does not parse, received on an open connection, takes
\* the handler to the plain-text notice and stores nothing; with the
\* connection still open the notice is sent to that sender and the handler
\* is back at receiving, registered, with no row stored and no delivery
\* started.
C15_Step ==
    \A w \in Sockets :
        /\ pc'[w] = "invalid_json" =>
              \/ pc[w] = "invalid_json"
              \/ /\ pc[w] = "receiving"
                 /\ peerOpen[w]
                 /\ peerOpen'[w]
                 /\ Registered(w)'
                 /\ NothingSent
        /\ (pc[w] = "invalid_json" /\ peerOpen[w] /\ pc'[w] # pc[w]) =>
              /\ pc'[w] = "receiving"
              /\ peerOpen'[w]
              /\ Registered(w)'
              /\ NothingSent

C15_MalformedNotice == [][C15_Step]_vars

\* a frame that does not parse was received on a connection that is open
\* and registered, with a row already stored
C15_Witness ==
    \E w \in Sockets :
        /\ pc[w] = "invalid_json"
        /\ peerOpen[w]
        /\ Registered(w)
        /\ Len(store) > 0

\* the handler holds a frame that parsed and lacks receiver_id or message
LacksKey(w) == pc[w] \in {"missing_fields", "attribute_error"}

\* C16: a frame that parses and lacks receiver_id or message, received on
\* an open connection, stores nothing and starts no delivery; with the
\* connection still open the handler sends the plain-text notice to that
\* sender and is back at receiving, registered.
C16_Step ==
    \A w \in Sockets :
        /\ (LacksKey(w)' /\ ~LacksKey(w)) =>
              /\ pc[w] = "receiving"
              /\ peerOpen'[w]
              /\ Registered(w)'
              /\ NothingSent
        /\ (LacksKey(w) /\ peerOpen[w] /\ pc'[w] # pc[w]) =>
              /\ pc'[w] = "receiving"
              /\ peerOpen'[w]
              /\ Registered(w)'
              /\ NothingSent

C16_MissingFields == [][C16_Step]_vars

\* C17: a task of either path that stores a row stores its sender, the
\* receiver_id, message and property_id of the frame or request body it was
\* given, unread; and the frame it sends is the payload of that row.
C17_Step ==
    \A t \in Tasks :
        /\ (~Delivering(t) /\ Delivering(t)') =>
              /\ store'[db_message'[t]].sender_id = current_user'[t]
              /\ store'[db_message'[t]].receiver_id = data'[t].receiver_id
              /\ store'[db_message'[t]].message = data'[t].message
              /\ store'[db_message'[t]].property_id = data'[t].property_id
              /\ store'[db_message'[t]].is_read = FALSE
        /\ (pc[t] = "sending" /\ pc'[t] # "sending" /\ outbox' # outbox) =>
              outbox' = [outbox EXCEPT
                           ![target[t]] =
                               Append(@, Payload(store[db_message[t]]))]

C17_SamePersistAndFrame == [][C17_Step]_vars

\* C18: a connection whose identity resolution fails ends rejected in the
\* step that finds it out, which leaves the registry, the table and every
\* peer's frames as they were; a rejected connection is not registered, has
\* no identity and no row, and takes no further step.
C18_Rejected ==
    \A w \in Sockets :
        pc[w] = "rejected" =>
            /\ ~Registered(w)
            /\ current_user[w] = NoUser
            /\ db_message[w] = NoMessage
            /\ data[w] = NoData
            /\ outbox[w] = <<>>

C18_Step ==
    \A w \in Sockets :
        /\ (pc'[w] = "rejected" /\ pc[w] # "rejected") =>
              /\ pc[w] = "connecting"
              /\ active_connections' = active_connections
              /\ store' = store
              /\ outbox' = outbox
        /\ pc[w] = "rejected" => pc'[w] = "rejected"

C18_RejectedUnregistered == []C18_Rejected /\ [][C18_Step]_vars

\* a connection was rejected while another is registered and a row is
\* stored
C18_Witness ==
    \E w, v \in Sockets :
        /\ pc[w] = "rejected"
        /\ Registered(v)
        /\ Len(store) > 0

\* C19: a send that does not complete holds up the recipient's own task and
\* no other: the websocket handler of no other connection, and no
\* send_message request of another user, is waiting for a send to return.
C19_OwnTaskOnly ==
    \A t \in Tasks :
        pc[t] = "sending" =>
            IF t \in Sockets THEN target[t] = t
            ELSE current_user[t] = current_user[target[t]]

\* C20: no step changes the list a broadcast is iterating while it iterates,
\* and a send, of a delivery or of a broadcast, is started only on a
\* connection that is registered when it starts.
C20_Step ==
    /\ (scan.pos > 0 /\ scan'.pos > 0) =>
           scan'.connections = scan.connections
    /\ \A t \in Tasks :
          (target'[t] # target[t] /\ target'[t] # NoSocket) =>
              \E k \in 1..Len(active_connections') :
                  active_connections'[k].websocket = target'[t]

C20_Serialized == [][C20_Step]_vars

\* the tasks that run, or ran, as the user
TasksOf(user) == {t \in Tasks : current_user[t] = user}

\* the frames of the user's rows that the peer of v was sent come by id
FramesInOrder(user, v) ==
    \A j, k \in 1..Len(outbox[v]) :
        (/\ j < k
         /\ outbox[v][j].type = "json"
         /\ outbox[v][k].type = "json"
         /\ outbox[v][j].sender_info = user
         /\ outbox[v][k].sender_info = user) =>
            outbox[v][j].id < outbox[v][k].id

\* C21: a websocket handler reads a frame only with no row of its own still
\* to deliver; the row it stores for a frame has an id above every row
\* stored before; it is back at receiving only after the delivery of that
\* row was attempted, to no session or with the frame sent; and so the
\* frames of a sender with one connection reach every peer in the order of
\* their ids, the order the frames were read in.
C21_InOrder ==
    \A u \in Users :
        Cardinality(TasksOf(u)) <= 1 =>
            \A v \in Sockets : FramesInOrder(u, v)

C21_Step ==
    \A w \in Sockets :
        /\ (pc[w] = "receiving" /\ peerOpen[w] /\ pc'[w] # "receiving") =>
              /\ db_message[w] = NoMessage
              /\ target[w] = NoSocket
        /\ (~Delivering(w) /\ Delivering(w)') =>
              /\ Len(store') = Len(store) + 1
              /\ db_message'[w] = store'[Len(store')].id
              /\ \A i \in 1..Len(store) : store[i].id < db_message'[w]
        /\ (Delivering(w) /\ pc'[w] = "receiving") =>
              /\ db_message'[w] = NoMessage
              /\ \/ /\ pc[w] = "deliver"
                    /\ NoSession(store[db_message[w]].receiver_id)
                 \/ /\ pc[w] = "sending"
                    /\ OneFrame(w)

C21_PerConnectionOrder == []C21_InOrder /\ [][C21_Step]_vars

\* the one connection of a user has sent two frames and the peer of another
\* connection got both, the first row first
C21_Witness ==
    \E w, v \in Sockets :
        /\ w # v
        /\ TasksOf(current_user[w]) = {w}
        /\ pc[w] = "receiving"
        /\ Len(outbox[v]) = 2
        /\ outbox[v][1].sender_info = current_user[w]
        /\ outbox[v][2].sender_info = current_user[w]
        /\ outbox[v][1].id < outbox[v][2].id

\* the task stores a row in the step
Stores(t) == ~Delivering(t) /\ Delivering(t)'

\* the request commits its mark-read in the step
Marks(r) ==
    /\ pc[r] = "marking"
    /\ pc'[r] = "done"
    /\ response'[r].status = "ok"

\* C22: no step removes a stored row or changes its id, sender_id,
\* receiver_id, message, property_id or timestamp; is_read goes from false
\* to true only, and only for rows a mark-read request selected, in the
\* step that commits it; the table grows by one row per step at most, a new
\* row is unread and takes the next id, and it is the row of the one task
\* whose send was accepted in that step; a frame turned down, for not
\* parsing or for a missing field, and a commit that fails store nothing.
C22_Step ==
    /\ Len(store') >= Len(store)
    /\ Len(store') <= Len(store) + 1
    /\ \A i \in 1..Len(store) :
          /\ [store'[i] EXCEPT !.is_read = store[i].is_read] = store[i]
          /\ store[i].is_read => store'[i].is_read
          /\ store'[i].is_read # store[i].is_read =>
                \E r \in Reqs : Marks(r) /\ i \in messages[r]
    /\ Len(store') = Len(store) + 1 =>
          /\ store'[Len(store')].id = Len(store')
          /\ store'[Len(store')].is_read = FALSE
          /\ Cardinality({t \in Tasks : Stores(t)}) = 1
    /\ \A t \in Tasks :
          /\ Stores(t) =>
                /\ Len(store') = Len(store) + 1
                /\ db_message'[t] = Len(store')
                /\ store'[Len(store')].sender_id = current_user'[t]
          /\ (/\ pc[t] \in {"receiving", "idle"}
              /\ pc'[t] \in {"invalid_json", "missing_fields",
                            "attribute_error", "failed"}) =>
                store' = store
          /\ (pc[t] = "idle" /\ pc'[t] = "done") => store' = store

C22_AppendOnly == [][C22_Step]_vars

\* a websocket send and a send_message were stored, a frame was turned
\* down, and a mark-read has read one of the two rows
C22_Witness ==
    /\ Len(store) = 2
    /\ store[1].is_read # store[2].is_read
    /\ \E w \in Sockets : pc[w] = "missing_fields"
    /\ \E r \in Reqs : response[r].status = "created"
    /\ \E r \in Reqs : response[r].status = "ok" /\ response[r].count = 1

\* the last frame the peer of w was sent
LastFrame(w) == outbox'[w][Len(outbox'[w])]

\* C23: the row a task stores has for sender_id the identity the task was
\* given when it connected or was called, whatever sender_id its frame or
\* body carries; the frame a task sends has that identity for sender_info;
\* and no frame or body changes the identity of a task that goes on.
C23_Step ==
    \A t \in Tasks :
        /\ Stores(t) =>
              /\ current_user'[t] \in Users
              /\ store'[db_message'[t]].sender_id = current_user'[t]
              /\ t \in Sockets => current_user'[t] = current_user[t]
        /\ (SendReturns(t) /\ outbox' # outbox) =>
              /\ Len(outbox'[target[t]]) = Len(outbox[target[t]]) + 1
              /\ LastFrame(target[t]).sender_info = current_user[t]
              /\ LastFrame(target[t]).id = db_message[t]
        /\ (current_user[t] # NoUser /\ ~Terminated(t)') =>
              current_user'[t] = current_user[t]

C23_SenderIsIdentity == [][C23_Step]_vars

\* a frame that names another user as its sender was stored and delivered
\* under the identity of the connection
C23_Witness ==
    \E w, v \in Sockets :
        /\ pc[w] = "sending"
        /\ target[w] = v
        /\ data[w].sender_id \in Users \ {current_user[w]}
        /\ store[db_message[w]].sender_id = current_user[w]
        /\ \E k \in 1..Len(outbox[v]) :
              /\ outbox[v][k].sender_info = current_user[w]
              /\ outbox[v][k].id < db_message[w]

\* the sum of unread_count over the summaries from the k-th on
RECURSIVE SumUnread(_, _)
SumUnread(conversations, k) ==
    IF k > Len(conversations) THEN 0
    ELSE conversations[k].unread_count + SumUnread(conversations, k + 1)

\* C24: whatever the table, for every user the unread_count of the
\* summaries get_conversations returns add up to what get_unread_count
\* returns.
C24_SumIsTotal ==
    \A u \in BaseUser : \A c \in get_conversations(u) :
        SumUnread(c, 1) = get_unread_count(u)

\* a list of two conversations with an unread row each was returned to a
\* user whose unread count is two
C24_Witness ==
    \E r \in Reqs : \E u \in BaseUser :
        /\ Listed(r)
        /\ response[r].conversations \in get_conversations(u)
        /\ Len(response[r].conversations) = 2
        /\ \A k \in 1..2 : response[r].conversations[k].unread_count = 1
        /\ get_unread_count(u) = 2
====
